---- MODULE Spec2Model ----
(***************************************************************************)
(* Model of the Fairland integration (custom_components/fairland):         *)
(*   - api.py          FairlandApiClient: login, _api_wrapper and the      *)
(*                     domain operations layered on it;                    *)
(*   - coordinator.py  FairlandDataUpdateCoordinator._async_update_data,   *)
(*                     one polling cycle;                                   *)
(*   - __init__.py     async_setup_entry: login, first refresh, platforms; *)
(*   - climate.py      FairlandClimate: construction, async_update and the *)
(*                     commands;                                           *)
(*   - switch.py, number.py, sensor.py  the entities' setup from a data    *)
(*                     point's dpProperty and their commands.              *)
(*                                                                         *)
(* The specifications share the variables:                                 *)
(*   SpecApi  several tasks use one FairlandApiClient concurrently; every  *)
(*            await of the client is a separate step.                      *)
(*   Spec     the polling cycle; every awaited client call is one step     *)
(*            whose result is computed by the same operators as SpecApi.   *)
(*   SpecClimate  the climate entity of one device; every await of a       *)
(*            command is a separate step.                                  *)
(*   SpecEntity   the climate entity, the power switch or a number of one  *)
(*            device, with all their commands.                             *)
(*   SpecStatus   the climate entity updated from every status report.     *)
(*   SpecThermostat  the climate entity with its mode mapping, its         *)
(*            reported settings and its temperature and preset commands.   *)
(*   SpecNorm     what the setup builds: the platforms' entities of one    *)
(*            data point for every dpProperty, the coordinator, the login  *)
(*            payload.                                                     *)
(*   SpecSetup    the setup of the config entry and the cycles after it.   *)
(***************************************************************************)
EXTENDS Integers, Sequences, FiniteSets, TLC

\* ---------------------------------------------------------------- bounds
MaxPayload == 1      \* a domain response's "data" is one of 0..MaxPayload
MaxToken == 2        \* a login response's "authorization" is one of 0..MaxToken
MaxDevices == 2      \* device ids 1..MaxDevices
MaxMode == 3         \* data point "106" reports one of 0..MaxMode

\* The tasks that use the one client concurrently: the coordinator's polling
\* cycle and an entity's command.
Callers == {"poll", "command"}
Payloads == 0 .. MaxPayload
Tokens == 0 .. MaxToken
DeviceIds == 1 .. MaxDevices

\* ------------------------------------------------------- server responses
\* What one HTTP exchange can produce.  net: "ok" (a response arrived),
\* "timeout", "conn" (DNS/connection failure), "none" (nothing received yet).
\* status is the HTTP status; code the application-level "code" field;
\* hasData tells whether the JSON body has a "data" member; data is its
\* content (for login: the "authorization" value, 0 standing for an empty one);
\* hasUser tells whether the login response's data has a "userId" member,
\* whose value is the account's user id.
SUCCESS_CODE == 200000
Statuses == {200, 401, 403, 500}
AppCodes == {SUCCESS_CODE, 400001}

NetFail(k) ==
    [net |-> k, status |-> 0, code |-> 0, hasData |-> FALSE, hasUser |-> FALSE,
     data |-> 0]
HttpError(s) ==
    [net |-> "ok", status |-> s, code |-> 0, hasData |-> FALSE, hasUser |-> FALSE,
     data |-> 0]
Body(c, d) ==
    [net |-> "ok", status |-> 200, code |-> c, hasData |-> TRUE, hasUser |-> FALSE,
     data |-> d]
LoginBody(c, d) == [Body(c, d) EXCEPT !.hasUser = TRUE]
BodyNoData(c) ==
    [net |-> "ok", status |-> 200, code |-> c, hasData |-> FALSE, hasUser |-> FALSE,
     data |-> 0]
NoResp == NetFail("none")

Failures ==
    {NetFail("timeout"), NetFail("conn")}
    \cup {HttpError(s) : s \in Statuses \ {200}}
    \cup {BodyNoData(SUCCESS_CODE)}

\* the responses to a domain request and to the login request (the last set:
\* a login body whose data has "authorization" but no "userId")
Responses == Failures \cup {Body(c, d) : c \in AppCodes, d \in Payloads}
LoginResponses ==
    Failures
    \cup {LoginBody(c, d) : c \in AppCodes, d \in Tokens}
    \cup {Body(SUCCESS_CODE, d) : d \in Tokens}

\* ------------------------------------------------------------- exceptions
\* Python exception classes, by name.  The first three are the client's own
\* hierarchy (FairlandApiClientError is the base of the other two).
NoError == "None"
AuthenticationError == "FairlandApiClientAuthenticationError"
CommunicationError == "FairlandApiClientCommunicationError"
ClientError == "FairlandApiClientError"
FairlandErrors == {AuthenticationError, CommunicationError, ClientError}
RawErrors == {"TimeoutError", "ClientConnectionError", "ClientResponseError",
              "KeyError", "Exception"}

Result(e, d) == [err |-> e, data |-> d]
NoResult == Result("pending", 0)

\* ------------------------------------------------------------------ api.py
\* The token is falsy (None or "") when 0.
EmptyToken == 0

\* A variant of _verify_response_or_raise without the 401/403 case (every
\* error status left to raise_for_status); C3 must tell it from the original.
VerifyMut_NoAuth(status) ==
    IF status >= 400 THEN "ClientResponseError" ELSE NoError

\* _verify_response_or_raise: what it raises for an HTTP status.
_verify_response_or_raise(status) ==
    IF status \in {401, 403} THEN AuthenticationError
    ELSE IF status >= 400 THEN "ClientResponseError"
    ELSE NoError

\* The exception raised inside the try block of _api_wrapper (lines 86-95)
\* before the except clauses are applied.
FirstAttemptRaises(r) ==
    IF r.net = "timeout" THEN "TimeoutError"
    ELSE IF r.net = "conn" THEN "ClientConnectionError"
    ELSE IF _verify_response_or_raise(r.status) # NoError
         THEN _verify_response_or_raise(r.status)
    ELSE IF ~r.hasData THEN "KeyError"
    ELSE NoError

\* The except clauses shared by _api_wrapper (111-128) and login (171-188):
\* the class the raised exception is converted to.
WrapException(e) ==
    IF e = NoError THEN NoError
    ELSE IF e = "TimeoutError" THEN CommunicationError
    ELSE IF e \in {"ClientConnectionError", "ClientResponseError"} THEN CommunicationError
    ELSE ClientError

\* TRUE when the first attempt enters the re-login handler (line 97).
NeedsRelogin(r) == FirstAttemptRaises(r) = AuthenticationError

\* Result of _api_wrapper when the first attempt does not enter the handler.
FirstAttemptResult(r) ==
    IF FirstAttemptRaises(r) = NoError THEN Result(NoError, r.data)
    ELSE Result(WrapException(FirstAttemptRaises(r)), 0)

\* The exception raised inside login's try block (lines 149-169).
LoginRaises(r) ==
    IF r.net = "timeout" THEN "TimeoutError"
    ELSE IF r.net = "conn" THEN "ClientConnectionError"
    ELSE IF r.status # 200 THEN "AttributeError"
    ELSE IF r.code # SUCCESS_CODE THEN "Exception"
    ELSE IF ~r.hasData THEN "KeyError"
    ELSE IF ~r.hasUser THEN "KeyError"
    ELSE NoError

\* TRUE when login reaches line 166, self.token = data["data"]["authorization"]:
\* everything before it in the try block has passed.
LoginStoresToken(r) ==
    r.net = "ok" /\ r.status = 200 /\ r.code = SUCCESS_CODE /\ r.hasData

\* TRUE when login reaches line 167, self.user_id = data["data"]["userId"],
\* and the member is there.
LoginStoresUser(r) == LoginStoresToken(r) /\ r.hasUser

\* The user id of the account the client logs in with, and the values of
\* self.user_id.
AccountUser == 1
UserIds == {EmptyToken, AccountUser}

\* self.token and self.user_id after login() has handled response r.
TokenAfterLogin(tok, r) == IF LoginStoresToken(r) THEN r.data ELSE tok
UserAfterLogin(usr, r) == IF LoginStoresUser(r) THEN AccountUser ELSE usr

\* Result of login(): the stored token on success, the wrapped error otherwise.
LoginResult(r) ==
    IF LoginRaises(r) = NoError THEN Result(NoError, r.data)
    ELSE Result(WrapException(LoginRaises(r)), 0)

\* A variant of the retry that returns the response's envelope instead of
\* its "data" member; C4 must tell it from the original.
RetryResultMut_Envelope(r) ==
    IF r.net = "timeout" THEN Result("TimeoutError", 0)
    ELSE IF r.net = "conn" THEN Result("ClientConnectionError", 0)
    ELSE IF r.status >= 400 THEN Result("ClientResponseError", 0)
    ELSE Result(NoError, 0)

\* Result of the retry inside the except handler (lines 101-109).  An
\* exception raised here is not seen by the sibling except clauses and leaves
\* _api_wrapper as it is.
RetryResult(r) ==
    IF r.net = "timeout" THEN Result("TimeoutError", 0)
    ELSE IF r.net = "conn" THEN Result("ClientConnectionError", 0)
    ELSE IF r.status >= 400 THEN Result("ClientResponseError", 0)
    ELSE IF ~r.hasData THEN Result("KeyError", 0)
    ELSE Result(NoError, r.data)

\* A variant of _get_headers that builds the headers whatever the token is;
\* C35 must tell it from the original.
GetHeadersMut_Never(tok) == NoError

\* _get_headers: raises Exception("Not logged in") for a falsy token.
GetHeadersRaises(tok) == IF tok = EmptyToken THEN "Exception" ELSE NoError

\* The token the retry's headers carry: _get_headers is called again after
\* login (line 100), so it is the token that login has just stored.
RetryToken(old, new) == new

\* The async_timeout.timeout(10) block an await of the client is inside, as
\* its number of seconds, 0 for none: the first send (lines 86-93) and
\* login's request (lines 149-159) are inside one; the retry (lines 101-106)
\* runs in the except handler, after the block of line 86 has been left.
TimeoutScope(pc) ==
    IF pc = "request" THEN 10
    ELSE IF pc \in {"login", "relogin"} THEN 10
    ELSE 0

\* ------------------------------------------------------------------- state
VARIABLES
    token,      \* FairlandApiClient.token (EmptyToken until a login stores one)
    user_id,    \* FairlandApiClient.user_id (EmptyToken standing for None)
    api,        \* per task: where it is inside login / _api_wrapper
    issued,     \* history of the tasks' calls: the token that the login() or
                \* re-login which succeeded last has returned
    cpc,        \* coordinator: "setup", "idle", "list" or "loop"
    devices,    \* _async_update_data: the device list of the running cycle
    updated_devices,      \* _async_update_data: the list being assembled
    data,                 \* coordinator.data, the published snapshot
    last_update_success,  \* coordinator.last_update_success
    cycle,      \* bookkeeping about the running / last finished cycle
    _is_on,               \* FairlandClimate._is_on
    _attr_hvac_mode,      \* FairlandClimate._attr_hvac_mode
    read,       \* the "dps" list __init__ / async_update has read, while that
                \* is the method of the entity that ran last
    cmd,        \* the entity's command in progress, or the one that finished
                \* last, until the climate entity is updated
    sent,       \* the set_device_status calls that command has issued
    _attr_target_temperature,  \* FairlandClimate._attr_target_temperature
    _attr_preset_mode,         \* FairlandClimate._attr_preset_mode
    _attr_hvac_action,         \* FairlandClimate._attr_hvac_action
    switch_is_on,              \* FairlandSwitch._is_on
    _attr_native_value,        \* FairlandNumber._attr_native_value
    entity,     \* the entity at hand: "climate", "switch" or "number"
    setup,      \* async_setup_entry: how far the setup of the entry has come
    norm        \* the entity configuration the last platform setup built

sessVars == <<token, user_id>>
apiVars == <<api, issued>>
coordVars == <<cpc, devices, updated_devices, data, last_update_success, cycle>>
entVars == <<_is_on, _attr_hvac_mode, read, cmd, sent>>
platVars ==
    <<_attr_target_temperature, _attr_preset_mode, _attr_hvac_action, switch_is_on,
      _attr_native_value>>
restVars == <<setup, norm, platVars, entity>>
vars ==
    <<token, user_id, api, issued, cpc, devices, updated_devices, data,
      last_update_success, cycle, _is_on, _attr_hvac_mode, read, cmd, sent,
      _attr_target_temperature, _attr_preset_mode, _attr_hvac_action, switch_is_on,
      _attr_native_value,
      entity, setup, norm>>

\* pc: "idle"    not inside the client
\*     "request" awaiting the first response (line 87)
\*     "relogin" awaiting the login response inside the handler (line 99)
\*     "retry"   awaiting the retried response (line 101)
\*     "login"   awaiting the response of a direct login() call (line 150)
\*     "done"    the call has returned or raised; res holds the outcome
\* hdr1/hdr2 are the Authorization values of the first send and of the retry,
\* logins/sends count login() calls and sends of the original request, and
\* r1/lr/r2 record the responses the call has received.
IdleCall ==
    [pc |-> "idle", op |-> "none", hdr1 |-> EmptyToken, hdr2 |-> EmptyToken,
     logins |-> 0, sends |-> 0, r1 |-> NoResp, lr |-> NoResp, r2 |-> NoResp,
     res |-> NoResult]

ApiInit ==
    /\ api = [c \in Callers |-> IdleCall]
    /\ issued = EmptyToken

\* A task calls a domain operation, i.e. _api_wrapper with headers=None:
\* _get_headers runs outside the try block (line 83), then the request is
\* sent with the stored token.
CallRequest(c) ==
    /\ api[c].pc = "idle"
    /\ IF GetHeadersRaises(token) # NoError
       THEN api' = [api EXCEPT ![c] = [@ EXCEPT !.pc = "done", !.op = "request",
                        !.res = Result(GetHeadersRaises(token), 0)]]
       ELSE api' = [api EXCEPT ![c] = [@ EXCEPT !.pc = "request", !.op = "request",
                        !.hdr1 = token, !.sends = 1]]
    /\ UNCHANGED <<sessVars, issued, coordVars, entVars, restVars>>

\* The first response arrives (lines 87-95); 401/403 enters the handler,
\* which calls login() (line 99), whose request is sent at once.
RequestResponse(c, r) ==
    /\ api[c].pc = "request"
    /\ IF NeedsRelogin(r)
       THEN api' = [api EXCEPT ![c] = [@ EXCEPT !.pc = "relogin", !.r1 = r,
                        !.logins = @ + 1]]
       ELSE api' = [api EXCEPT ![c] = [@ EXCEPT !.pc = "done", !.r1 = r,
                        !.res = FirstAttemptResult(r)]]
    /\ UNCHANGED <<sessVars, issued, coordVars, entVars, restVars>>

\* The handler's login() returns or raises (lines 99-101).  On success the
\* token is stored, the headers are rebuilt and the request is sent again.
ReloginResponse(c, r) ==
    /\ api[c].pc = "relogin"
    /\ token' = TokenAfterLogin(token, r)
    /\ user_id' = UserAfterLogin(user_id, r)
    /\ issued' = IF LoginResult(r).err = NoError THEN r.data ELSE issued
    /\ LET lres == LoginResult(r)
           hdr == RetryToken(token, lres.data)
       IN IF lres.err # NoError
          THEN api' = [api EXCEPT ![c] = [@ EXCEPT !.pc = "done", !.lr = r,
                               !.res = lres]]
          ELSE IF GetHeadersRaises(hdr) # NoError
          THEN api' = [api EXCEPT ![c] = [@ EXCEPT !.pc = "done", !.lr = r,
                               !.res = Result(GetHeadersRaises(hdr), 0)]]
          ELSE api' = [api EXCEPT ![c] = [@ EXCEPT !.pc = "retry", !.lr = r,
                               !.hdr2 = hdr, !.sends = @ + 1]]
    /\ UNCHANGED <<coordVars, entVars, restVars>>

\* The retried response arrives (lines 101-109).
RetryResponse(c, r) ==
    /\ api[c].pc = "retry"
    /\ api' = [api EXCEPT ![c] = [@ EXCEPT !.pc = "done", !.r2 = r,
                    !.res = RetryResult(r)]]
    /\ UNCHANGED <<sessVars, issued, coordVars, entVars, restVars>>

\* A task calls login() directly (setup, config flow).
CallLogin(c) ==
    /\ api[c].pc = "idle"
    /\ api' = [api EXCEPT ![c] = [@ EXCEPT !.pc = "login", !.op = "login",
                    !.logins = 1]]
    /\ UNCHANGED <<sessVars, issued, coordVars, entVars, restVars>>

\* The response of a direct login() arrives (lines 150-188).
LoginResponse(c, r) ==
    /\ api[c].pc = "login"
    /\ api' = [api EXCEPT ![c] = [@ EXCEPT !.pc = "done", !.lr = r,
                    !.res = LoginResult(r)]]
    /\ token' = TokenAfterLogin(token, r)
    /\ user_id' = UserAfterLogin(user_id, r)
    /\ issued' = IF LoginResult(r).err = NoError THEN r.data ELSE issued
    /\ UNCHANGED <<coordVars, entVars, restVars>>

\* The caller has consumed the outcome; the task may call again.
Return(c) ==
    /\ api[c].pc = "done"
    /\ api' = [api EXCEPT ![c] = IdleCall]
    /\ UNCHANGED <<sessVars, issued, coordVars, entVars, restVars>>

\* _api_wrapper as one step, for a caller that nothing interleaves with:
\* the outcome and the token and user id left behind, given the stored ones
\* and the responses the first send (r1), the handler's login (lr) and the
\* retry (r2) would receive.
ApiWrapper(tok, usr, r1, lr, r2) ==
    IF GetHeadersRaises(tok) # NoError
    THEN [res |-> Result(GetHeadersRaises(tok), 0), token |-> tok, user_id |-> usr]
    ELSE IF ~NeedsRelogin(r1)
    THEN [res |-> FirstAttemptResult(r1), token |-> tok, user_id |-> usr]
    ELSE IF LoginResult(lr).err # NoError
    THEN [res |-> LoginResult(lr), token |-> TokenAfterLogin(tok, lr),
          user_id |-> UserAfterLogin(usr, lr)]
    ELSE IF GetHeadersRaises(RetryToken(tok, LoginResult(lr).data)) # NoError
    THEN [res |-> Result(GetHeadersRaises(RetryToken(tok, LoginResult(lr).data)), 0),
          token |-> TokenAfterLogin(tok, lr), user_id |-> UserAfterLogin(usr, lr)]
    ELSE [res |-> RetryResult(r2), token |-> TokenAfterLogin(tok, lr),
          user_id |-> UserAfterLogin(usr, lr)]

\* The exchanges one _api_wrapper call can have with the server: the responses
\* to the first send, to the handler's login and to the retry, NoResp for an
\* exchange that does not take place.
Exchanges ==
    {<<r1, NoResp, NoResp>> : r1 \in {r \in Responses : ~NeedsRelogin(r)}}
    \cup {<<r1, lr, NoResp>> :
            r1 \in {r \in Responses : NeedsRelogin(r)},
            lr \in {r \in LoginResponses : \/ LoginResult(r).err # NoError
                                            \/ LoginResult(r).data = EmptyToken}}
    \cup {<<r1, lr, r2>> :
            r1 \in {r \in Responses : NeedsRelogin(r)},
            lr \in {r \in LoginResponses : /\ LoginResult(r).err = NoError
                                            /\ LoginResult(r).data # EmptyToken},
            r2 \in Responses}

\* What an uninterrupted _api_wrapper call can come to with the stored
\* token tok and user id usr: every outcome some exchange produces.
Outcomes ==
    [tok \in Tokens |->
        [usr \in UserIds |-> {ApiWrapper(tok, usr, x[1], x[2], x[3]) : x \in Exchanges}]]

\* the token and user id after such a call
SessionAfter(call) ==
    /\ token' = call.token
    /\ user_id' = call.user_id

\* ---------------------------------------------------------- coordinator.py
\* A Device value: the entry of the device list (id and the list's other
\* fields, which the model does not distinguish), plus "dps" once a status
\* has been stored in it.  hasDps = FALSE: the dict has no "dps" key.
ListEntry(d) == [id |-> d, hasDps |-> FALSE, dps |-> 0]

RECURSIVE ListsFrom(_)
\* the lists of distinct device ids, in ascending order, with ids >= d
ListsFrom(d) ==
    IF d > MaxDevices THEN {<<>>}
    ELSE ListsFrom(d + 1) \cup {<<d>> \o q : q \in ListsFrom(d + 1)}

\* The values of data["bindDeviceInfos"]; has = FALSE: the key is missing.
DeviceLists == {[i \in 1 .. Len(q) |-> ListEntry(q[i])] : q \in ListsFrom(1)}
NoListPayload == [has |-> FALSE, devs |-> <<>>]
ListPayloads == {NoListPayload} \cup {[has |-> TRUE, devs |-> L] : L \in DeviceLists}

\* the payloads a call's response can carry: none unless the call succeeded
PayloadsOf(call) == IF call.res.err = NoError THEN ListPayloads ELSE {NoListPayload}

\* get_all_devices_in_courtyard (api.py 200-210): the wrapper's outcome, then
\* data["bindDeviceInfos"], whose KeyError is raised outside the wrapper.
GetAllDevicesError(res, payload) ==
    IF res.err # NoError THEN res.err
    ELSE IF ~payload.has THEN "KeyError"
    ELSE NoError

\* except (FairlandApiClientCommunicationError, FairlandApiClientError): the
\* clause of the per-device try (line 67) and of the outer try (line 71).
IsCaught(e) == e \in FairlandErrors

\* Lines 64-66: the copy of the list entry with "dps" set to the status.
UpdatedDevice(device, status) == [device EXCEPT !.hasDps = TRUE, !.dps = status]

\* Line 69: what is appended for a device whose status fetch was caught.
\* prev is coordinator.data, which the code does not consult.
KeptDevice(device, prev) == device

\* A variant of the device-list step that swallows a failure and goes on with
\* an empty list; C2 must tell it from the original.
ListStepMut_Swallow(err, payload) ==
    IF err = NoError THEN [next |-> "loop", devs |-> payload.devs, exc |-> NoError]
    ELSE [next |-> "loop", devs |-> <<>>, exc |-> NoError]

\* Lines 48-51, 71-72: the device-list step.  next = "loop": the loop starts
\* over devs; next = "raise": exc leaves _async_update_data.
ListStep(err, payload) ==
    IF err = NoError THEN [next |-> "loop", devs |-> payload.devs, exc |-> NoError]
    ELSE IF IsCaught(err) THEN [next |-> "raise", devs |-> <<>>, exc |-> "UpdateFailed"]
    ELSE [next |-> "raise", devs |-> <<>>, exc |-> err]

\* A variant in which the loop appends to the published list itself; C8 must
\* tell it from the original.
SnapshotWhileLoopingMut_Alias(snapshot, updated) == updated

\* Lines 53-69: coordinator.data while the loop runs.  updated_devices is a
\* fresh local list; the loop never writes coordinator.data.
SnapshotWhileLooping(snapshot, updated) == snapshot

\* ------------------------------------------------- the host's coordinator
\* DataUpdateCoordinator, the base class: it awaits _async_update_data,
\* stores what it returns in data, keeps data when it raises, records the
\* outcome in last_update_success and then calls the listeners once (not at
\* all when this and the previous cycle both failed).  One cycle runs at a
\* time.
RefreshSucceeded(result) ==
    /\ data' = result
    /\ last_update_success' = TRUE

RefreshFailed ==
    /\ data' = data
    /\ last_update_success' = FALSE

Notified(ok) == IF ok \/ last_update_success THEN 1 ELSE 0

\* cycle: outcome  "none" before the first cycle, "running", "ok", "failed"
\*        listErr  what get_all_devices_in_courtyard raised ("pending" before
\*                 it has finished, NoError when it returned the list)
\*        before   coordinator.data when the cycle started
\*        failed   ids whose status fetch was caught in the loop
\*        fetches  get_device_status calls issued
\*        notified listener notifications made
\*        everOk   some cycle has succeeded before this one
NoCycle ==
    [outcome |-> "none", listErr |-> "pending", before |-> <<>>, failed |-> {},
     fetches |-> 0, notified |-> 0, everOk |-> FALSE]

CoordInit ==
    /\ cpc = "setup"
    /\ devices = <<>>
    /\ updated_devices = <<>>
    /\ data = <<>>
    /\ last_update_success = TRUE
    /\ cycle = NoCycle

\* setup: login     "none" before login() has been awaited, then "ok" or
\*                  "failed", the outcome of the last attempt
\*        platforms the platforms have been set up
\*        entities  the ids of the devices the platforms made entities for
NoSetup == [login |-> "none", platforms |-> FALSE, entities |-> {}]

\* A variant of the setup that goes on whatever login() raised; C30 must
\* tell it from the original.
SetupContinuesMut_Always(err) == TRUE

\* __init__.py 62-67: login() raises one of the client's errors (it wraps
\* every other one): the except clause logs it and returns False.
SetupContinues(err) == err = NoError

\* async_setup_entry, __init__.py 62-70: login; a failure ends the setup, a
\* success lets the coordinator refresh.
SetupLogin(r) ==
    /\ cpc = "setup"
    /\ token' = TokenAfterLogin(token, r)
    /\ user_id' = UserAfterLogin(user_id, r)
    /\ cpc' = IF SetupContinues(LoginResult(r).err) THEN "idle" ELSE "setup"
    /\ setup' = [setup EXCEPT !.login = IF LoginResult(r).err = NoError THEN "ok"
                                        ELSE "failed"]
    /\ UNCHANGED <<apiVars, devices, updated_devices, data, last_update_success, cycle,
                   entVars, norm, platVars, entity>>

\* The timer or a refresh request starts a cycle.
StartCycle ==
    /\ cpc = "idle"
    /\ cpc' = "list"
    /\ cycle' = [outcome |-> "running", listErr |-> "pending", before |-> data,
                 failed |-> {}, fetches |-> 0, notified |-> 0,
                 everOk |-> cycle.everOk \/ cycle.outcome = "ok"]
    /\ UNCHANGED <<sessVars, apiVars, devices, updated_devices, data, last_update_success,
                   entVars, restVars>>

\* Lines 48-53 and 71-72: the device list is fetched.
FetchList(call, payload) ==
    /\ cpc = "list"
    /\ LET err == GetAllDevicesError(call.res, payload)
           step == ListStep(err, payload)
       IN /\ SessionAfter(call)
          /\ IF step.next = "loop"
             THEN /\ cpc' = "loop"
                  /\ devices' = step.devs
                  /\ updated_devices' = <<>>
                  /\ cycle' = [cycle EXCEPT !.listErr = err]
                  /\ UNCHANGED <<data, last_update_success>>
             ELSE /\ cpc' = "idle"
                  /\ RefreshFailed
                  /\ cycle' = [cycle EXCEPT !.outcome = "failed", !.listErr = err,
                                   !.notified = @ + Notified(FALSE)]
                  /\ UNCHANGED <<devices, updated_devices>>
    /\ UNCHANGED <<apiVars, entVars, restVars>>

\* Lines 55-69: one iteration of the loop.
FetchDevice(call) ==
    /\ cpc = "loop"
    /\ Len(updated_devices) < Len(devices)
    /\ LET device == devices[Len(updated_devices) + 1]
           err == call.res.err
       IN /\ SessionAfter(call)
          /\ IF err = NoError
             THEN /\ updated_devices' =
                        Append(updated_devices, UpdatedDevice(device, call.res.data))
                  /\ data' = SnapshotWhileLooping(data, updated_devices')
                  /\ cycle' = [cycle EXCEPT !.fetches = @ + 1]
                  /\ UNCHANGED <<cpc, last_update_success>>
             ELSE IF IsCaught(err)
             THEN /\ updated_devices' = Append(updated_devices, KeptDevice(device, data))
                  /\ data' = SnapshotWhileLooping(data, updated_devices')
                  /\ cycle' = [cycle EXCEPT !.fetches = @ + 1,
                                   !.failed = @ \cup {device.id}]
                  /\ UNCHANGED <<cpc, last_update_success>>
             ELSE /\ cpc' = "idle"
                  /\ RefreshFailed
                  /\ cycle' = [cycle EXCEPT !.fetches = @ + 1, !.outcome = "failed",
                                   !.failed = @ \cup {device.id},
                                   !.notified = @ + Notified(FALSE)]
                  /\ UNCHANGED updated_devices
    /\ UNCHANGED <<apiVars, devices, entVars, restVars>>

\* Lines 73-74: the loop is over, updated_devices is returned.
ReturnUpdated ==
    /\ cpc = "loop"
    /\ Len(updated_devices) = Len(devices)
    /\ cpc' = "idle"
    /\ RefreshSucceeded(updated_devices)
    /\ cycle' = [cycle EXCEPT !.outcome = "ok", !.notified = @ + Notified(TRUE)]
    /\ UNCHANGED <<sessVars, apiVars, devices, updated_devices, entVars, restVars>>

\* --------------------------------------------------------------- climate.py
\* HVACMode members, by value.
HVACMode_OFF == "off"
HVACMode_AUTO == "auto"
HVACMode_HEAT == "heat"
HVACMode_COOL == "cool"
HVACModes == {HVACMode_OFF, HVACMode_AUTO, HVACMode_HEAT, HVACMode_COOL}

\* HVACAction members, by value.
HVACAction_OFF == "off"
HVACAction_HEATING == "heating"
HVACAction_COOLING == "cooling"
HVACAction_IDLE == "idle"

HVAC_MODE_MAP == (0 :> HVACMode_AUTO) @@ (1 :> HVACMode_HEAT) @@ (2 :> HVACMode_COOL)

\* HVAC_MODE_REVERSE_MAP; NoModeValue is the None stored for HVACMode.OFF.
NoModeValue == -1
HVAC_MODE_REVERSE_MAP ==
    (HVACMode_AUTO :> 0) @@ (HVACMode_HEAT :> 1) @@ (HVACMode_COOL :> 2)
    @@ (HVACMode_OFF :> NoModeValue)

\* HVAC_MODE_MAP.get(value, HVACMode.OFF)
HvacModeOf(value) ==
    IF value \in DOMAIN HVAC_MODE_MAP THEN HVAC_MODE_MAP[value] ELSE HVACMode_OFF

\* One data point of a device's "dps" list, and the lists the climate device
\* can report: any of the power switch "101" and the operating mode "106", in
\* either order.
Dp(id, value) == [dpId |-> id, dpValue |-> value]
PowerDps == {Dp("101", b) : b \in BOOLEAN}
ModeDps == {Dp("106", m) : m \in 0 .. MaxMode}
DpsLists ==
    {<<>>}
    \cup {<<p>> : p \in PowerDps \cup ModeDps}
    \cup {<<p, m>> : p \in PowerDps, m \in ModeDps}
    \cup {<<m, p>> : p \in PowerDps, m \in ModeDps}

\* self._index_data.get(id): whether it finds a data point, and its dpValue.
HasDp(list, id) == \E i \in 1 .. Len(list) : list[i].dpId = id
DpValue(list, id) ==
    list[CHOOSE i \in 1 .. Len(list) :
            /\ list[i].dpId = id
            /\ \A j \in (i + 1) .. Len(list) : list[j].dpId # id].dpValue

_get_switch_state(list) == IF HasDp(list, "101") THEN DpValue(list, "101") ELSE FALSE

_get_current_mode(on, list) ==
    IF ~on THEN HVACMode_OFF
    ELSE IF HasDp(list, "106") THEN HvacModeOf(DpValue(list, "106"))
    ELSE HVACMode_OFF

\* async_update, lines 199-218: the data points are applied one after the
\* other, in list order, to the cached state st = [on, mode].
RECURSIVE ApplyDps(_, _)
ApplyDps(st, list) ==
    IF list = <<>> THEN st
    ELSE LET dp == Head(list)
             nxt == IF dp.dpId = "101"
                    THEN [on |-> dp.dpValue,
                          mode |-> IF ~dp.dpValue THEN HVACMode_OFF ELSE st.mode]
                    ELSE IF dp.dpId = "106"
                    THEN [on |-> st.on,
                          mode |-> IF st.on THEN HvacModeOf(dp.dpValue) ELSE st.mode]
                    ELSE st
         IN ApplyDps(nxt, Tail(list))

\* A set_device_status(device_id, dp, value) call.
Call(dp, value) == [dp |-> dp, value |-> value]

\* A variant of the power-off call that writes true to the power switch;
\* C19 must tell it from the original.
TurnOffCallMut_On == Call("101", TRUE)

\* The call async_turn_off makes (lines 319-323), the call async_turn_on
\* means to make (lines 300-304) and the mode call (lines 286-292).
TurnOffCall == Call("101", FALSE)
TurnOnCall == Call("101", TRUE)
ModeCall(hvac_mode) == Call("106", HVAC_MODE_REVERSE_MAP[hvac_mode])

\* A variant of async_turn_on that calls the method the client has; C21 must
\* tell it from the original.
TurnOnMethodMut_Fixed == "set_device_status"

\* The coroutines FairlandApiClient defines (api.py) and the attribute
\* async_turn_on looks up on the client (line 300).
ClientMethods ==
    {"login", "get_courtyards", "get_all_devices_in_courtyard", "get_device_status",
     "set_device_status"}
TurnOnMethod == "set_device_statuss"

\* cmd: pc        "idle", or the await the command is at: "turn_on",
\*                "turn_off", "mode"
\*      op        the method called
\*      hvac_mode the argument of async_set_hvac_mode
\*      wasOn     _is_on when the command was called
\*      ok        the command's last set_device_status call has returned
\*      failed    some set_device_status call of the command has raised
\*      wrote     the command has written a cached attribute
\*      refresh   the command has called coordinator.async_request_refresh
\*      arg       the command's numeric argument, in tenths
\*      step      the step of the number entity commanded, in tenths
\*      label     the argument of async_set_preset_mode
NoCmd == [pc |-> "idle", op |-> "none", hvac_mode |-> HVACMode_OFF, wasOn |-> FALSE,
          ok |-> FALSE, failed |-> FALSE, wrote |-> FALSE, refresh |-> FALSE,
          arg |-> 0, step |-> 0, label |-> "none"]
NoRead == [by |-> "none", dps |-> <<>>]

\* the preset label of an entity that has none (None)
NoLabel == "none"

\* a cached number that is None
NoValue == -1

\* cmd when method op is called and comes to the await pc
Called(pc, op, hvac_mode) ==
    [NoCmd EXCEPT !.pc = pc, !.op = op, !.hvac_mode = hvac_mode, !.wasOn = _is_on]

\* before the platforms have constructed the other entities: climate.py
\* 117-123, switch.py 77, number.py (no value before _update_value)
PlatInit ==
    /\ _attr_target_temperature = NoValue
    /\ _attr_preset_mode = NoLabel
    /\ _attr_hvac_action = HVACAction_IDLE
    /\ switch_is_on = FALSE
    /\ _attr_native_value = NoValue

\* before the platform has constructed the entity
NoEntity ==
    /\ _is_on = FALSE
    /\ _attr_hvac_mode = HVACMode_OFF
    /\ read = NoRead
    /\ cmd = NoCmd
    /\ sent = <<>>

\* __init__ (lines 101-103, 121-122) for a device_info whose "dps" is list.
Construct(list) ==
    /\ _is_on = _get_switch_state(list)
    /\ _attr_hvac_mode = _get_current_mode(_get_switch_state(list), list)
    /\ read = [by |-> "__init__", dps |-> list]
    /\ cmd = NoCmd
    /\ sent = <<>>

\* async_turn_on up to its await (lines 299-304), called by op.  The lookup
\* of an attribute the client does not have raises AttributeError, which the
\* except clause (line 313) logs: no call is made and nothing is stored.
StartTurnOn(op, hvac_mode) ==
    IF TurnOnMethod \in ClientMethods
    THEN /\ cmd' = Called("turn_on", op, hvac_mode)
         /\ sent' = <<TurnOnCall>>
    ELSE IF op = "async_set_hvac_mode"
    THEN /\ cmd' = Called("mode", op, hvac_mode)
         /\ sent' = <<ModeCall(hvac_mode)>>
    ELSE /\ cmd' = Called("idle", op, hvac_mode)
         /\ sent' = <<>>

\* async_turn_off up to its await (lines 318-323), called by op.
StartTurnOff(op, hvac_mode) ==
    /\ cmd' = Called("turn_off", op, hvac_mode)
    /\ sent' = <<TurnOffCall>>

\* async_set_hvac_mode up to its first await (lines 272-292).
AsyncSetHvacMode(hvac_mode) ==
    /\ cmd.pc = "idle"
    /\ IF hvac_mode = HVACMode_OFF
       THEN StartTurnOff("async_set_hvac_mode", hvac_mode)
       ELSE IF ~_is_on
       THEN StartTurnOn("async_set_hvac_mode", hvac_mode)
       ELSE /\ cmd' = Called("mode", "async_set_hvac_mode", hvac_mode)
            /\ sent' = <<ModeCall(hvac_mode)>>
    /\ read' = NoRead
    /\ UNCHANGED <<_is_on, _attr_hvac_mode, sessVars, apiVars, coordVars, restVars>>

AsyncTurnOn ==
    /\ cmd.pc = "idle"
    /\ StartTurnOn("async_turn_on", HVACMode_OFF)
    /\ read' = NoRead
    /\ UNCHANGED <<_is_on, _attr_hvac_mode, sessVars, apiVars, coordVars, restVars>>

AsyncTurnOff ==
    /\ cmd.pc = "idle"
    /\ StartTurnOff("async_turn_off", HVACMode_OFF)
    /\ read' = NoRead
    /\ UNCHANGED <<_is_on, _attr_hvac_mode, sessVars, apiVars, coordVars, restVars>>

\* The awaited set_device_status returns (ok) or raises (~ok); the rest of
\* the method runs: lines 305-314 after the power-on call, then, inside
\* async_set_hvac_mode, lines 283-292; lines 324-328 after the power-off call;
\* lines 293-295 after the mode call.
CommandReturns(ok) ==
    /\ cmd.pc \in {"turn_on", "turn_off", "mode"}
    /\ read' = NoRead
    /\ IF cmd.pc = "turn_on"
       THEN /\ _is_on' = IF ok THEN TRUE ELSE _is_on
            /\ _attr_hvac_mode' =
                   IF ok /\ _attr_hvac_mode = HVACMode_OFF THEN HVACMode_AUTO
                   ELSE _attr_hvac_mode
            /\ IF cmd.op = "async_set_hvac_mode"
               THEN /\ cmd' = [cmd EXCEPT !.pc = "mode", !.failed = @ \/ ~ok, !.wrote = @ \/ ok]
                    /\ sent' = Append(sent, ModeCall(cmd.hvac_mode))
               ELSE /\ cmd' = [cmd EXCEPT !.pc = "idle", !.ok = ok, !.failed = @ \/ ~ok,
                                 !.wrote = @ \/ ok]
                    /\ UNCHANGED sent
       ELSE IF cmd.pc = "turn_off"
       THEN /\ _is_on' = IF ok THEN FALSE ELSE _is_on
            /\ _attr_hvac_mode' = IF ok THEN HVACMode_OFF ELSE _attr_hvac_mode
            /\ cmd' = [cmd EXCEPT !.pc = "idle", !.ok = ok, !.failed = @ \/ ~ok,
                                 !.wrote = @ \/ ok]
            /\ UNCHANGED sent
       ELSE /\ _attr_hvac_mode' = IF ok THEN cmd.hvac_mode ELSE _attr_hvac_mode
            /\ cmd' = [cmd EXCEPT !.pc = "idle", !.ok = ok, !.failed = @ \/ ~ok,
                                 !.wrote = @ \/ ok]
            /\ UNCHANGED <<_is_on, sent>>
    /\ UNCHANGED <<sessVars, apiVars, coordVars, restVars>>

\* ------------------------------------------------ dpProperty normalisation
\* A dpProperty is a JSON text.  kind says what json.loads makes of it:
\*   "absent"      the data point has no "dpProperty" key
\*   "unparsable"  json.loads raises JSONDecodeError
\*   "scalar"      a JSON number, true, false or null
\*   "list"        a JSON array
\*   "object"      a JSON object; obj gives each key's value
\* A value of an object is absent, a number n, a string that is no number,
\* or null.
MaxScale == 2
MaxPairs == 2

Absent == [t |-> "absent", n |-> 0]
Num(n) == [t |-> "num", n |-> n]
Str == [t |-> "str", n |-> 0]
Null == [t |-> "null", n |-> 0]

PropKeys == {"min", "max", "step", "scale"}
NoObj == [k \in PropKeys |-> Absent]
Prop(kind, obj) == [kind |-> kind, obj |-> obj]
NonObjectProps ==
    {Prop(kind, NoObj) : kind \in {"absent", "unparsable", "scalar", "list"}}

\* Python's conversions of a JSON value: float(x) and int(x) raise
\* ValueError on a string that is no number and TypeError on None.
ConversionError(v) ==
    IF v.t = "str" THEN "ValueError"
    ELSE IF v.t = "null" THEN "TypeError"
    ELSE NoError

\* What reading prop raises before any key is looked up: json.loads on an
\* unparsable text, `"key" in prop` on a scalar.
PropError(prop) ==
    IF prop.kind = "unparsable" THEN "JSONDecodeError"
    ELSE IF prop.kind = "scalar" THEN "TypeError"
    ELSE NoError

\* number.py 24-84, NUMBER_TYPES: min, max and step of two of its entries,
\* in tenths.
NUMBER_TYPES ==
    [dp \in {"116", "117"} |->
        IF dp = "116" THEN [min |-> 0, max |-> 20, step |-> 10]
        ELSE [min |-> 100, max |-> 1200, step |-> 50]]
NumberDps == DOMAIN NUMBER_TYPES

\* A variant of the override that leaves the registry value in place; C27
\* must tell it from the original.
OverriddenMut_Keep(config, key, v) == config

\* number.py 113-121: config = config.copy(); config[key] = float(prop[key]).
Overridden(config, key, v) == [config EXCEPT ![key] = v.n]

RECURSIVE NumberOverrides(_, _, _)
\* number.py 110-127: the keys are read in the order min, max, step; the
\* first conversion that raises ends the try block, the except clause logs
\* it, and the overrides made before it stay in config.
NumberOverrides(config, obj, keys) ==
    IF keys = <<>> THEN config
    ELSE LET key == Head(keys)
             v == obj[key]
         IN IF v.t = "absent" THEN NumberOverrides(config, obj, Tail(keys))
            ELSE IF ConversionError(v) # NoError THEN config
            ELSE NumberOverrides(Overridden(config, key, v), obj, Tail(keys))

\* number.py 105-136: the configuration the number entity of data point dp
\* is constructed with, and whether the setup raised.  except Exception
\* catches whatever the try block raises.
NumberSetupFrom(types, dp, prop) ==
    IF prop.kind = "object"
    THEN [config |-> NumberOverrides(types[dp], prop.obj, <<"min", "max", "step">>),
          raised |-> FALSE]
    ELSE [config |-> types[dp], raised |-> FALSE]

\* the same, the registry being as compiled in
NumberSetup(dp, prop) == NumberSetupFrom(NUMBER_TYPES, dp, prop)

\* A variant of the setup that stores the overrides in the registry's own
\* entry; C33 must tell it from the original.
RegistryAfterMut_InPlace(types, dp, entry) == [types EXCEPT ![dp] = entry]

\* number.py 114, 117, 120 and sensor.py 289: config = config.copy() comes
\* before every assignment, so the entry the entity is built from is a new
\* dict and the registry's entry of dp stays as it was.
RegistryAfter(types, dp, entry) == types

\* The dpProperty values a number data point can carry; numbers in tenths.
PropNumbers == {5, 20}
JVals == {Absent, Str, Null} \cup {Num(n) : n \in PropNumbers}
NumberProps ==
    NonObjectProps \cup
    {Prop("object", [NoObj EXCEPT !["min"] = a, !["max"] = b, !["step"] = c]) :
        a \in JVals, b \in JVals, c \in JVals}

\* sensor.py 28-260, SENSOR_TYPES: the "scale" of two of its entries;
\* NoScale: the entry has none.  Line 336: sensor_config.get("scale", 0).
NoScale == 0
SENSOR_TYPES ==
    [dp \in {"105", "112"} |-> IF dp = "112" THEN [hasScale |-> TRUE, scale |-> 3]
                               ELSE [hasScale |-> FALSE, scale |-> NoScale]]
SensorDps == DOMAIN SENSOR_TYPES
ScaleIn(types, dp) == IF types[dp].hasScale THEN types[dp].scale ELSE NoScale
RegistryScale(dp) == ScaleIn(SENSOR_TYPES, dp)

\* except (json.JSONDecodeError, KeyError, ValueError), sensor.py 292.
SensorCatches(e) == e \in {"JSONDecodeError", "KeyError", "ValueError"}

\* sensor.py 284-304 and 336: the scale the sensor of data point dp is
\* constructed with, and whether the setup raised.  Only the power sensor's
\* dpProperty is read.
SensorSetupFrom(types, dp, prop) ==
    IF dp # "112" \/ prop.kind = "absent"
    THEN [scale |-> ScaleIn(types, dp), raised |-> FALSE]
    ELSE LET v == prop.obj["scale"]
             e == IF PropError(prop) # NoError THEN PropError(prop)
                  ELSE IF prop.kind = "object" THEN ConversionError(v)
                  ELSE NoError
         IN IF e # NoError
            THEN [scale |-> ScaleIn(types, dp), raised |-> ~SensorCatches(e)]
            ELSE IF prop.kind = "object" /\ v.t = "num"
            THEN [scale |-> v.n, raised |-> FALSE]
            ELSE [scale |-> ScaleIn(types, dp), raised |-> FALSE]

\* the same, the registry being as compiled in
SensorSetup(dp, prop) == SensorSetupFrom(SENSOR_TYPES, dp, prop)

RECURSIVE Pow10(_)
Pow10(s) == IF s = 0 THEN 1 ELSE 10 * Pow10(s - 1)

\* A displayed value, the quotient num / den.
Quot(num, den) == [num |-> num, den |-> den]

\* sensor.py 371-398, _update_state: the value shown for the raw value.
Displayed(scale, value) ==
    IF scale > 0 THEN Quot(value, Pow10(scale)) ELSE Quot(value, 1)

SensorProps ==
    NonObjectProps \cup
    {Prop("object", [NoObj EXCEPT !["scale"] = v]) :
        v \in {Absent, Str, Null} \cup {Num(n) : n \in 0 .. MaxScale}}
SensorValues == {0, 255, 1500}

\* The dpProperty of data point "102" is a JSON object from keys to labels,
\* kept here as the list of its items in the order json.loads yields them.
\* A key is a text; int(key) is its number, or raises ValueError.
KeyTexts == {"0", "1", "01", "x"}
Labels == {"eco", "boost"}
NoCode == -1
IntOf(key) ==
    IF key = "0" THEN 0
    ELSE IF key \in {"1", "01"} THEN 1
    ELSE NoCode
IsIntegerText(key) == IntOf(key) # NoCode
Codes == {IntOf(key) : key \in {k \in KeyTexts : IsIntegerText(k)}}

Item(key, label) == [key |-> key, label |-> label]
RECURSIVE ItemLists(_)
\* the item lists of at most n items with pairwise different keys
ItemLists(n) ==
    IF n = 0 THEN {<<>>}
    ELSE LET shorter == ItemLists(n - 1)
         IN shorter \cup
            {Append(q, Item(key, label)) :
                q \in {x \in shorter : Len(x) = n - 1},
                key \in KeyTexts, label \in Labels}
KeysOf(items) == {items[i].key : i \in 1 .. Len(items)}
ModeMappings ==
    {q \in ItemLists(MaxPairs) : Cardinality(KeysOf(q)) = Len(q)}
ModeProp(kind, items) == [kind |-> kind, items |-> items]
ModeProps ==
    {ModeProp(kind, <<>>) : kind \in {"absent", "unparsable", "scalar", "list"}}
    \cup {ModeProp("object", q) : q \in ModeMappings}

\* The two dictionaries, as functions: NoLabel / NoCode where a key is not
\* in the dictionary.
EmptyForward == [c \in Codes |-> NoLabel]
EmptyReverse == [l \in Labels |-> NoCode]

RECURSIVE ForwardLoop(_, _)
\* climate.py 146-148: self._preset_modes_map[int(value)] = name for each
\* item; ok = FALSE when int() raised, with the entries stored before it.
ForwardLoop(map, items) ==
    IF items = <<>> THEN [map |-> map, ok |-> TRUE]
    ELSE IF ~IsIntegerText(Head(items).key) THEN [map |-> map, ok |-> FALSE]
    ELSE ForwardLoop([map EXCEPT ![IntOf(Head(items).key)] = Head(items).label],
                     Tail(items))

\* A variant of the reverse dictionary that stores one code for every label;
\* C25 must tell it from the original.
ReverseEntryMut_Zero(item) == 0

\* climate.py 152: the code stored for an item's label, int(value).
ReverseEntry(item) == IntOf(item.key)

RECURSIVE ReverseLoop(_, _)
\* climate.py 150-152: self._preset_modes_reverse_map[name] = int(value).
ReverseLoop(map, items) ==
    IF items = <<>> THEN map
    ELSE ReverseLoop([map EXCEPT ![Head(items).label] = ReverseEntry(Head(items))],
                     Tail(items))

\* climate.py 134-157, _setup_preset_modes: the forward and the reverse
\* dictionary after it.  The second loop runs only when the first has ended
\* without an exception; except Exception catches whatever is raised.
_setup_preset_modes(prop) ==
    IF prop.kind # "object"
    THEN [forward |-> EmptyForward, reverse |-> EmptyReverse, raised |-> FALSE]
    ELSE LET first == ForwardLoop(EmptyForward, prop.items)
         IN [forward |-> first.map,
             reverse |-> IF first.ok THEN ReverseLoop(EmptyReverse, prop.items)
                         ELSE EmptyReverse,
             raised |-> FALSE]

\* climate.py 110-113: _attr_preset_modes, the labels the entity offers.
PresetModes(maps) == {maps.forward[c] : c \in Codes} \ {NoLabel}

\* norm: what the last setup step built, and the two registries (module
\* dictionaries, shared by every setup) as they are after it.
Registries == [number |-> NUMBER_TYPES, sensor |-> SENSOR_TYPES]
NoNorm == [kind |-> "none", registry |-> Registries]

\* number.py 87-138, async_setup_entry for data point dp with dpProperty prop
SetupNumber(dp, prop) ==
    /\ LET out == NumberSetupFrom(norm.registry.number, dp, prop)
       IN norm' = [kind |-> "number", dp |-> dp, prop |-> prop, out |-> out,
                   registry |-> [norm.registry EXCEPT
                                    !.number = RegistryAfter(@, dp, out.config)]]
    /\ UNCHANGED <<sessVars, apiVars, coordVars, entVars, platVars, setup, entity>>

\* sensor.py 264-309 and 371-398: the sensor of data point dp is set up and
\* shows the raw value.
SetupSensor(dp, prop, value) ==
    /\ LET types == norm.registry.sensor
           out == SensorSetupFrom(types, dp, prop)
           entry == IF out.scale = ScaleIn(types, dp) THEN types[dp]
                    ELSE [hasScale |-> TRUE, scale |-> out.scale]
       IN norm' = [kind |-> "sensor", dp |-> dp, prop |-> prop, value |-> value,
                   out |-> out, shown |-> Displayed(out.scale, value),
                   registry |-> [norm.registry EXCEPT
                                    !.sensor = RegistryAfter(@, dp, entry)]]
    /\ UNCHANGED <<sessVars, apiVars, coordVars, entVars, platVars, setup, entity>>

\* climate.py 105-113: the climate entity's constructor builds the preset
\* dictionaries from the dpProperty of data point "102".
SetupPresetModes(prop) ==
    /\ norm' = [kind |-> "preset", prop |-> prop, out |-> _setup_preset_modes(prop),
                registry |-> norm.registry]
    /\ UNCHANGED <<sessVars, apiVars, coordVars, entVars, platVars, setup, entity>>

\* ------------------------------------- coordinator and client construction
\* const.py: the names the module defines.
ConstNames == {"LOGGER", "DOMAIN", "DEFAULT_SCAN_INTERVAL", "ATTRIBUTION"}
DEFAULT_SCAN_INTERVAL == 30

\* A config entry's data: hasScan = FALSE when it has no "scan_interval".
ScanIntervals == {DEFAULT_SCAN_INTERVAL, 2 * DEFAULT_SCAN_INTERVAL}
ConfigEntries ==
    {[hasScan |-> FALSE, scan_interval |-> 0]} \cup
    {[hasScan |-> TRUE, scan_interval |-> n] : n \in ScanIntervals}

\* coordinator.py 19 and 33-40: the module imports SCAN_INTERVAL from const
\* and the constructor passes timedelta(seconds=SCAN_INTERVAL); the config
\* entry's data is not read.  Importing a name const does not define raises
\* ImportError: the module does not load and no coordinator is built
\* (seconds = 0).
CoordinatorInterval(config_entry) ==
    IF "SCAN_INTERVAL" \in ConstNames
    THEN [raised |-> NoError, seconds |-> DEFAULT_SCAN_INTERVAL]
    ELSE [raised |-> "ImportError", seconds |-> 0]

\* __init__.py 44-47 with coordinator.py 19-40
SetupCoordinator(config_entry) ==
    /\ norm' = [kind |-> "coordinator", entry |-> config_entry,
                out |-> CoordinatorInterval(config_entry), registry |-> norm.registry]
    /\ UNCHANGED <<sessVars, apiVars, coordVars, entVars, platVars, setup, entity>>

\* api.py 133-140, login: the payload's two codes are literals; the
\* constructor's country_code and phone_code (lines 54-55) are not read.
LoginPayload(country_code, phone_code) == [phoneCode |-> "49", countryCode |-> "DE"]

CountryCodes == {"DE", "FR"}
PhoneCodes == {"49", "33"}

\* api.py 43-59 and 130-146: a client is constructed and login() builds its
\* payload.
BuildLoginPayload(country_code, phone_code) ==
    /\ norm' = [kind |-> "login", country_code |-> country_code,
                phone_code |-> phone_code,
                payload |-> LoginPayload(country_code, phone_code),
                registry |-> norm.registry]
    /\ UNCHANGED <<sessVars, apiVars, coordVars, entVars, platVars, setup, entity>>

\* ------------------------------------------- switch.py, number.py, climate.py
\* The other commands.  Each makes one set_device_status call and writes the
\* cache after the await.  Numbers are in tenths.

\* round(value) of Python 3: to the nearest integer, a half to the even one.
RoundHalfEven(t) ==
    LET q == t \div 10
        r == t % 10
    IN IF r < 5 THEN q
       ELSE IF r > 5 THEN q + 1
       ELSE IF q % 2 = 0 THEN q ELSE q + 1

\* number.py 204-207: int(round(value)) when the step is a whole number,
\* round(value, 2) otherwise.
RoundedValue(step, value) ==
    IF step % 10 = 0 THEN 10 * RoundHalfEven(value) ELSE value

\* int(temperature), climate.py 266, for a temperature that is not negative
IntTenths(t) == 10 * (t \div 10)

NumberInputs == {15, 525, 530}
StepProps == {Prop("absent", NoObj), Prop("object", [NoObj EXCEPT !["step"] = Num(5)])}
TemperatureInputs == {250, 255}

\* climate.py 105-107: the entity's two dictionaries, as its constructor's
\* _setup_preset_modes left them; both are empty for a device without a
\* running-mode mapping.
PresetMaps ==
    IF norm.kind = "preset" THEN norm.out
    ELSE _setup_preset_modes(ModeProp("absent", <<>>))

\* the entity whose constructor read the mode mapping prop
PresetNorm(prop) ==
    [kind |-> "preset", prop |-> prop, out |-> _setup_preset_modes(prop),
     registry |-> Registries]

\* climate.py 223 and 265: the data point async_update reads the target
\* temperature from, and the one async_set_temperature writes.
TargetTemperatureDp == "107"
SetTemperatureDp == "103"

\* climate.py 226-236: hvac_action after data point "113" with dpValue value,
\* from the cached _is_on and _attr_hvac_mode.
RunningAction(st, value) ==
    IF value = 1 /\ st.on
    THEN IF st.mode = HVACMode_HEAT THEN HVACAction_HEATING
         ELSE IF st.mode = HVACMode_COOL THEN HVACAction_COOLING
         ELSE HVACAction_IDLE
    ELSE HVACAction_IDLE

\* A variant of async_update's running-mode branch that stores one label
\* whatever the mapping holds; C37 must tell it from the original.
PresetAfterMut_Boost(preset, forward, value) == "boost"

\* climate.py 209-212: self._preset_modes_map.get(value), stored when it is
\* a label.
PresetAfter(preset, forward, value) ==
    IF value \in DOMAIN forward /\ forward[value] # NoLabel THEN forward[value]
    ELSE preset

\* async_update, lines 199-236: the data points are applied one after the
\* other, in list order, to the cached state
\* st = [on, mode, action, preset, target].  "103" goes to
\* _attr_current_temperature, which the model does not keep.
RECURSIVE ApplyStatus(_, _, _)
ApplyStatus(st, forward, list) ==
    IF list = <<>> THEN st
    ELSE LET dp == Head(list)
             pm == ApplyDps([on |-> st.on, mode |-> st.mode], <<dp>>)
             nxt == IF dp.dpId = "101"
                    THEN [st EXCEPT !.on = pm.on, !.mode = pm.mode,
                                    !.action = IF ~dp.dpValue THEN HVACAction_OFF ELSE @]
                    ELSE IF dp.dpId = "102"
                    THEN [st EXCEPT !.preset = PresetAfter(@, forward, dp.dpValue)]
                    ELSE IF dp.dpId = "106"
                    THEN [st EXCEPT !.mode = pm.mode]
                    ELSE IF dp.dpId = TargetTemperatureDp
                    THEN [st EXCEPT !.target = dp.dpValue]
                    ELSE IF dp.dpId = "113"
                    THEN [st EXCEPT !.action = RunningAction(st, dp.dpValue)]
                    ELSE st
         IN ApplyStatus(nxt, forward, Tail(list))

\* async_update (lines 189-236) with the device's "dps" being list.  It has no
\* await, so it runs between any two steps of a command.
AsyncUpdate(list) ==
    /\ entity = "climate"
    /\ LET st == ApplyStatus([on |-> _is_on, mode |-> _attr_hvac_mode,
                              action |-> _attr_hvac_action,
                              preset |-> _attr_preset_mode,
                              target |-> _attr_target_temperature],
                             PresetMaps.forward, list)
       IN /\ _is_on' = st.on
          /\ _attr_hvac_mode' = st.mode
          /\ _attr_hvac_action' = st.action
          /\ _attr_preset_mode' = st.preset
          /\ _attr_target_temperature' = st.target
    /\ read' = [by |-> "async_update", dps |-> list]
    /\ cmd' = IF cmd.pc = "idle" THEN NoCmd ELSE cmd
    /\ UNCHANGED <<sent, switch_is_on, _attr_native_value, sessVars, apiVars,
                   coordVars, setup, norm, entity>>

\* The "dps" lists of the climate device's status: any of the power switch
\* "101", the operating mode "106" and the operating status "113" in any
\* order; and the lists of its settings: one of the running mode "102" and
\* the temperatures "103" and "107".
RunningDps == {Dp("113", v) : v \in 0 .. 1}
HvacDps == PowerDps \cup ModeDps \cup RunningDps
HvacLists ==
    {q \in UNION {[1 .. n -> HvacDps] : n \in 0 .. 3} :
        \A i, j \in 1 .. Len(q) : i # j => q[i].dpId # q[j].dpId}
SettingLists ==
    {<<Dp("102", c)>> : c \in 0 .. MaxMode}
    \cup {<<Dp(id, t)>> : id \in {"103", "107"}, t \in TemperatureInputs}

\* mode mappings: none, one label, and two keys that are one code
EntityModeProps ==
    {ModeProp("absent", <<>>),
     ModeProp("object", <<Item("1", "eco")>>),
     ModeProp("object", <<Item("1", "eco"), Item("x", "boost")>>),
     ModeProp("object", <<Item("1", "eco"), Item("01", "boost")>>)}

\* switch.py 133-169, async_turn_on (on) and async_turn_off (~on), up to the
\* await.
SwitchTurn(on) ==
    /\ entity = "switch"
    /\ cmd.pc = "idle"
    /\ cmd' = Called("switch", IF on THEN "switch.async_turn_on"
                               ELSE "switch.async_turn_off", HVACMode_OFF)
    /\ sent' = <<Call("101", on)>>
    /\ read' = NoRead
    /\ UNCHANGED <<_is_on, _attr_hvac_mode, sessVars, apiVars, coordVars, restVars>>

\* the number entity of data point dp, set up with dpProperty prop
NumberNorm(dp, prop) ==
    [kind |-> "number", dp |-> dp, prop |-> prop, out |-> NumberSetup(dp, prop),
     registry |-> Registries]

\* number.py 200-214, async_set_native_value up to the await.  The host has
\* checked the value against the entity's minimum and maximum.
AsyncSetNativeValue(value) ==
    /\ entity = "number"
    /\ cmd.pc = "idle"
    /\ LET config == norm.out.config
       IN /\ config.min <= value
          /\ value <= config.max
          /\ cmd' = [Called("number", "async_set_native_value", HVACMode_OFF)
                        EXCEPT !.arg = value, !.step = config.step]
          /\ sent' = <<Call(norm.dp, RoundedValue(config.step, value))>>
    /\ read' = NoRead
    /\ UNCHANGED <<_is_on, _attr_hvac_mode, sessVars, apiVars, coordVars, restVars>>

\* climate.py 256-268, async_set_temperature up to the await.
AsyncSetTemperature(temperature) ==
    /\ entity = "climate"
    /\ cmd.pc = "idle"
    /\ cmd' = [Called("temperature", "async_set_temperature", HVACMode_OFF)
                  EXCEPT !.arg = temperature]
    /\ sent' = <<Call(SetTemperatureDp, IntTenths(temperature))>>
    /\ read' = NoRead
    /\ UNCHANGED <<_is_on, _attr_hvac_mode, sessVars, apiVars, coordVars, restVars>>

\* climate.py 238-252, async_set_preset_mode up to the await.  A label the
\* reverse dictionary does not have is logged and no call is made.
AsyncSetPresetMode(preset_mode) ==
    /\ entity = "climate"
    /\ cmd.pc = "idle"
    /\ LET mode_value == PresetMaps.reverse[preset_mode]
       IN IF mode_value # NoCode
          THEN /\ cmd' = [Called("preset", "async_set_preset_mode", HVACMode_OFF)
                             EXCEPT !.label = preset_mode]
               /\ sent' = <<Call("102", mode_value)>>
          ELSE /\ cmd' = [Called("idle", "async_set_preset_mode", HVACMode_OFF)
                             EXCEPT !.label = preset_mode]
               /\ sent' = <<>>
    /\ read' = NoRead
    /\ UNCHANGED <<_is_on, _attr_hvac_mode, sessVars, apiVars, coordVars, restVars>>

\* The awaited call of one of these commands returns (ok) or raises (~ok):
\* switch.py 140-151 and 162-167, number.py 215-219, climate.py 250 and 268.
\* The switch and the number then ask the coordinator for a refresh.
PlatformCommandReturns(ok) ==
    /\ cmd.pc \in {"switch", "number", "temperature", "preset"}
    /\ switch_is_on' = IF ok /\ cmd.pc = "switch" THEN sent[1].value ELSE switch_is_on
    /\ _attr_native_value' =
           IF ok /\ cmd.pc = "number" THEN sent[1].value ELSE _attr_native_value
    /\ _attr_target_temperature' =
           IF ok /\ cmd.pc = "temperature" THEN cmd.arg ELSE _attr_target_temperature
    /\ _attr_preset_mode' =
           IF ok /\ cmd.pc = "preset" THEN cmd.label ELSE _attr_preset_mode
    /\ cmd' = [cmd EXCEPT !.pc = "idle", !.ok = ok, !.failed = @ \/ ~ok,
                          !.wrote = @ \/ ok,
                          !.refresh = ok /\ cmd.pc \in {"switch", "number"}]
    /\ read' = NoRead
    /\ UNCHANGED <<_is_on, _attr_hvac_mode, _attr_hvac_action, sent, sessVars,
                   apiVars, coordVars, setup, norm, entity>>

\* A device of coordinator.data as the update handlers read it: hasDps is
\* FALSE when it has no "dps" key.  The entity's device is OwnDevice.
OwnDevice == "a"
OtherDevice == "b"
Device(id, hasDps, dps) == [id |-> id, hasDps |-> hasDps, dps |-> dps]
UpdateDps ==
    {<<>>}
    \cup {<<Dp("101", b)>> : b \in BOOLEAN}
    \cup {<<Dp(dp, v)>> : dp \in NumberDps, v \in NumberInputs}
Snapshots ==
    {<<>>}
    \cup {<<Device(OwnDevice, FALSE, <<>>)>>}
    \cup {<<Device(id, TRUE, dps)>> : id \in {OwnDevice, OtherDevice}, dps \in UpdateDps}
    \cup {<<Device(OtherDevice, TRUE, other), Device(OwnDevice, TRUE, dps)>> :
             other \in {<<Dp("101", b)>> : b \in BOOLEAN}, dps \in UpdateDps}

\* switch.py 119-122 and number.py 232-234 with switch.py 93 and number.py
\* 191: the "dps" of the first device of the snapshot that has the entity's
\* id; <<>> when there is none or it has no "dps", which both leave the
\* entity as it is.
HandlerDps(snapshot) ==
    IF \E i \in 1 .. Len(snapshot) : snapshot[i].id = OwnDevice
    THEN LET device == snapshot[CHOOSE i \in 1 .. Len(snapshot) :
                           /\ snapshot[i].id = OwnDevice
                           /\ \A j \in 1 .. (i - 1) : snapshot[j].id # OwnDevice]
         IN IF device.hasDps THEN device.dps ELSE <<>>
    ELSE <<>>

\* the dpValue of the first data point of list with the id
FirstDpValue(list, id) ==
    list[CHOOSE i \in 1 .. Len(list) :
            /\ list[i].dpId = id
            /\ \A j \in 1 .. (i - 1) : list[j].dpId # id].dpValue

\* A variant of the handlers that keeps the cached value; C36 must tell it
\* from the original.
CacheAfterMut_Keep(cached, dps, id) == cached

\* switch.py 92-99, _update_state, and number.py 189-198, _update_value: the
\* loop stores the first data point with the entity's id and returns.
CacheAfter(cached, dps, id) ==
    IF HasDp(dps, id) THEN FirstDpValue(dps, id) ELSE cached

\* switch.py 118-126 and number.py 229-237, _handle_coordinator_update, the
\* listener the coordinator calls when it publishes snapshot.  They have no
\* await and run between any two steps of a command.
SwitchUpdate(snapshot) ==
    /\ entity = "switch"
    /\ switch_is_on' = CacheAfter(switch_is_on, HandlerDps(snapshot), "101")
    /\ read' = [by |-> "_handle_coordinator_update", dps |-> HandlerDps(snapshot)]
    /\ UNCHANGED <<_is_on, _attr_hvac_mode, cmd, sent, _attr_target_temperature,
                   _attr_preset_mode, _attr_hvac_action, _attr_native_value, sessVars,
                   apiVars, coordVars, setup, norm, entity>>

NumberUpdate(snapshot) ==
    /\ entity = "number"
    /\ _attr_native_value' = CacheAfter(_attr_native_value, HandlerDps(snapshot), norm.dp)
    /\ read' = [by |-> "_handle_coordinator_update", dps |-> HandlerDps(snapshot)]
    /\ UNCHANGED <<_is_on, _attr_hvac_mode, cmd, sent, _attr_target_temperature,
                   _attr_preset_mode, _attr_hvac_action, switch_is_on, sessVars,
                   apiVars, coordVars, setup, norm, entity>>

\* -------------------------------------------------- __init__.py, platforms
\* __init__.py 70: the first refresh, awaited before the platforms are set up.
FirstRefresh ==
    /\ cycle.outcome = "none"
    /\ StartCycle

\* __init__.py 73 and the platforms' async_setup_entry (switch.py 29-53,
\* climate.py 42-65, number.py 87-138, sensor.py 264-309): reached when the
\* first refresh has returned; the host raises ConfigEntryNotReady out of
\* async_setup_entry when that refresh failed.  Each platform makes its
\* entities for the devices in coordinator.data.
PlatformSetup ==
    /\ cpc = "idle"
    /\ cycle.outcome = "ok"
    /\ ~setup.platforms
    /\ setup' = [setup EXCEPT !.platforms = TRUE,
                              !.entities = {data[i].id : i \in 1 .. Len(data)}]
    /\ UNCHANGED <<sessVars, apiVars, coordVars, entVars, platVars, norm, entity>>

\* The coordinator's timer, running once the entities listen to it.  The
\* model follows its first cycle, the one after the first refresh.
TimerCycle ==
    /\ setup.platforms
    /\ ~cycle.everOk
    /\ StartCycle

\* switch.py 107-110, number.py 184-187, sensor.py 366-369 and climate.py
\* 178-181: the available property of every entity.  The update handlers
\* (switch.py 118-126, sensor.py 414-422) leave an entity whose device is not
\* in coordinator.data as it is.
available(d) == last_update_success

\* ---------------------------------------------------------- specifications
SessInit ==
    /\ token = EmptyToken
    /\ user_id = EmptyToken

RestInit ==
    /\ entity = "climate"
    /\ PlatInit
    /\ setup = NoSetup
    /\ norm = NoNorm

Init ==
    /\ SessInit
    /\ ApiInit
    /\ CoordInit
    /\ NoEntity
    /\ RestInit

Next ==
    \/ \E r \in LoginResponses : SetupLogin(r)
    \/ StartCycle
    \/ \E call \in Outcomes[token][user_id] : \E p \in PayloadsOf(call) : FetchList(call, p)
    \/ \E call \in Outcomes[token][user_id] : FetchDevice(call)
    \/ ReturnUpdated

Spec == Init /\ [][Next]_vars

NextApi ==
    \E c \in Callers :
        \/ CallRequest(c)
        \/ \E r \in Responses : RequestResponse(c, r)
        \/ \E r \in LoginResponses : ReloginResponse(c, r)
        \/ \E r \in Responses : RetryResponse(c, r)
        \/ CallLogin(c)
        \/ \E r \in LoginResponses : LoginResponse(c, r)
        \/ Return(c)

SpecApi == Init /\ [][NextApi]_vars

\* The climate entity of one device: constructed from a device_info, then
\* updated from the coordinator's snapshot and commanded in any order.
InitClimate ==
    /\ SessInit
    /\ ApiInit
    /\ CoordInit
    /\ \E list \in DpsLists : Construct(list)
    /\ RestInit

NextClimate ==
    \/ \E list \in DpsLists : AsyncUpdate(list)
    \/ \E hvac_mode \in HVACModes : AsyncSetHvacMode(hvac_mode)
    \/ AsyncTurnOn
    \/ AsyncTurnOff
    \/ \E ok \in BOOLEAN : CommandReturns(ok)

SpecClimate == InitClimate /\ [][NextClimate]_vars

\* The entities of one device: the climate entity, the power switch and a
\* number, updated and commanded in any order, one command at a time.
NextEntity ==
    \/ entity = "climate" /\ NextClimate
    \/ \E on \in BOOLEAN : SwitchTurn(on)
    \/ \E value \in NumberInputs : AsyncSetNativeValue(value)
    \/ \E temperature \in TemperatureInputs : AsyncSetTemperature(temperature)
    \/ \E label \in Labels : AsyncSetPresetMode(label)
    \/ \E ok \in BOOLEAN : PlatformCommandReturns(ok)
    \/ \E snapshot \in Snapshots : SwitchUpdate(snapshot)
    \/ \E snapshot \in Snapshots : NumberUpdate(snapshot)

InitEntity ==
    /\ SessInit
    /\ ApiInit
    /\ CoordInit
    /\ \E list \in DpsLists : Construct(list)
    /\ entity \in {"climate", "switch", "number"}
    /\ PlatInit
    /\ setup = NoSetup
    /\ norm \in IF entity = "climate"
                THEN {PresetNorm(prop) : prop \in {q \in EntityModeProps : Len(q.items) <= 1}}
                ELSE IF entity = "number"
                THEN {NumberNorm(dp, prop) : dp \in NumberDps, prop \in StepProps}
                ELSE {NoNorm}

SpecEntity == InitEntity /\ [][NextEntity]_vars

\* The climate entity of one device, updated from every status the device
\* can report.
NextStatus == \E list \in HvacLists : AsyncUpdate(list)

SpecStatus == InitClimate /\ [][NextStatus]_vars

\* The climate entity of one device with its running-mode mapping, updated
\* from the settings the device reports and given temperatures and presets.
InitThermostat ==
    /\ SessInit
    /\ ApiInit
    /\ CoordInit
    /\ \E list \in DpsLists : Construct(list)
    /\ entity = "climate"
    /\ PlatInit
    /\ setup = NoSetup
    /\ norm \in {PresetNorm(prop) : prop \in EntityModeProps}

NextThermostat ==
    \/ \E list \in SettingLists : AsyncUpdate(list)
    \/ \E temperature \in TemperatureInputs : AsyncSetTemperature(temperature)
    \/ \E label \in Labels : AsyncSetPresetMode(label)
    \/ \E ok \in BOOLEAN : PlatformCommandReturns(ok)

SpecThermostat == InitThermostat /\ [][NextThermostat]_vars

\* What the setup builds from its inputs: the platforms' entities of one
\* data point for every dpProperty it can carry, the coordinator for every
\* config entry, the login payload for every client.
NextNorm ==
    \/ \E dp \in NumberDps : \E prop \in NumberProps : SetupNumber(dp, prop)
    \/ \E dp \in SensorDps : \E prop \in SensorProps : \E value \in SensorValues :
           SetupSensor(dp, prop, value)
    \/ \E prop \in ModeProps : SetupPresetModes(prop)
    \/ \E config_entry \in ConfigEntries : SetupCoordinator(config_entry)
    \/ \E country_code \in CountryCodes : \E phone_code \in PhoneCodes :
           BuildLoginPayload(country_code, phone_code)

SpecNorm == Init /\ [][NextNorm]_vars

\* The setup of the config entry and the coordinator's cycles after it.
NextSetup ==
    \/ \E r \in LoginResponses : SetupLogin(r)
    \/ FirstRefresh
    \/ PlatformSetup
    \/ TimerCycle
    \/ \E call \in Outcomes[token][user_id] : \E p \in PayloadsOf(call) : FetchList(call, p)
    \/ \E call \in Outcomes[token][user_id] : FetchDevice(call)
    \/ ReturnUpdated

SpecSetup == Init /\ [][NextSetup]_vars

\* ------------------------------------------------------------------ claims
Ids(snapshot) == {snapshot[i].id : i \in 1 .. Len(snapshot)}
Entry(snapshot, d) == snapshot[CHOOSE i \in 1 .. Len(snapshot) : snapshot[i].id = d]
CycleOver == cpc = "idle" /\ cycle.outcome \in {"ok", "failed"}
ListFailed == cycle.listErr \notin {"pending", NoError}
IsAuthStatus(r) == r.net = "ok" /\ r.status \in {401, 403}
IsLoginSuccess(r) ==
    r.net = "ok" /\ r.status = 200 /\ r.code = SUCCESS_CODE /\ r.hasData /\ r.hasUser
IsAccepted(r) == r.net = "ok" /\ r.status = 200 /\ r.hasData

\* C1 (fallback): after a successful cycle that follows a successful cycle,
\* every device whose status fetch failed in it and that the previous snapshot
\* holds has, in the published snapshot, exactly the Device value (dps
\* included) the previous snapshot had for it.
C1_Fallback ==
    (CycleOver /\ cycle.outcome = "ok" /\ cycle.everOk) =>
        \A d \in cycle.failed \cap Ids(cycle.before) \cap Ids(data) :
            Entry(data, d) = Entry(cycle.before, d)

\* C2: when get_all_devices_in_courtyard fails, whatever it raises, the
\* cycle is over at once: the published snapshot is the one from before the
\* cycle, no get_device_status call was issued and last_update_success is
\* false.
C2_ListFailureKeepsSnapshot ==
    ListFailed =>
        /\ cpc = "idle"
        /\ data = cycle.before
        /\ cycle.fetches = 0
        /\ ~last_update_success

\* a list fetch has failed with a snapshot of two devices published before
C2_Witness ==
    /\ ListFailed
    /\ cycle.everOk
    /\ Len(cycle.before) = 2
    /\ cycle.before[1].hasDps

\* C6: when the device list was fetched, the cycle succeeds whatever the
\* per-device fetches come to, and the snapshot has one entry per listed
\* device, in list order.
C6_DeviceFailuresAbsorbed ==
    (CycleOver /\ cycle.listErr = NoError) =>
        /\ cycle.outcome = "ok"
        /\ last_update_success
        /\ Len(data) = Len(devices)
        /\ \A i \in 1 .. Len(devices) : data[i].id = devices[i].id

\* C7: a cycle with a transient error never publishes fewer devices than were
\* published before it, and a device whose fetch failed is represented by its
\* last-known Device value.
C7_SnapshotKeepsLastKnown ==
    CycleOver =>
        /\ (ListFailed \/ cycle.outcome = "failed") => Len(data) >= Len(cycle.before)
        /\ cycle.outcome = "ok" =>
              \A d \in cycle.failed \cap Ids(cycle.before) :
                  d \in Ids(data) /\ Entry(data, d) = Entry(cycle.before, d)

\* C8: the published snapshot changes at most once per cycle and only when the
\* loop is over: while a cycle runs, coordinator.data is the complete snapshot
\* from before the cycle and no listener has been called; a changed snapshot
\* is the whole list the finished loop assembled; listeners are called at
\* most once per cycle, and once when the cycle succeeds.
C8_PublishOncePerCycle ==
    /\ cycle.notified <= 1
    /\ cpc \in {"list", "loop"} => data = cycle.before /\ cycle.notified = 0
    /\ data # cycle.before =>
          /\ CycleOver /\ cycle.outcome = "ok"
          /\ data = updated_devices
          /\ Len(data) = Len(devices)
    /\ (CycleOver /\ cycle.outcome = "ok") => cycle.notified = 1

\* the loop has stored one device of two while another snapshot is published
C8_Witness ==
    /\ cpc = "loop"
    /\ Len(devices) = 2
    /\ Len(updated_devices) = 1
    /\ Len(data) = 2
    /\ updated_devices[1] # data[1]

\* C3 as stated: a request whose first response is 401/403 has, when it is
\* over, made exactly one login and exactly one retry carrying the token that
\* login stored.
C3_AlwaysOneRetry ==
    \A c \in Callers :
        (api[c].pc = "done" /\ api[c].op = "request" /\ IsAuthStatus(api[c].r1)) =>
            /\ api[c].logins = 1
            /\ api[c].sends = 2
            /\ api[c].hdr2 = api[c].lr.data

\* C3, amended: a request never makes more than one login or two sends; a
\* 401/403 first response leads to exactly one login; exactly one retry,
\* carrying the token that login stored, is sent when that login succeeds
\* with a non-empty token, and none otherwise; any other first response
\* leads to no login and no retry; a failed retry ends the call with its
\* error, with no further login or send.
C3_OneLoginOneRetry ==
    \A c \in Callers :
        api[c].op = "request" =>
            /\ api[c].logins <= 1
            /\ api[c].sends <= 2
            /\ IsAuthStatus(api[c].r1) => api[c].logins = 1
            /\ (api[c].r1 # NoResp /\ ~IsAuthStatus(api[c].r1)) =>
                  api[c].logins = 0 /\ api[c].sends = 1 /\ api[c].pc = "done"
            /\ (api[c].pc = "done" /\ IsAuthStatus(api[c].r1)) =>
                  IF IsLoginSuccess(api[c].lr) /\ api[c].lr.data # EmptyToken
                  THEN api[c].sends = 2 /\ api[c].hdr2 = api[c].lr.data
                  ELSE api[c].sends = 1 /\ api[c].res.err # NoError
            /\ (api[c].r2 # NoResp /\ ~IsAccepted(api[c].r2)) =>
                  /\ api[c].pc = "done"
                  /\ api[c].res.err # NoError
                  /\ api[c].logins = 1
                  /\ api[c].sends = 2

\* a retry that was answered 401 again, after a login that changed the token
C3_Witness ==
    \E c \in Callers :
        /\ api[c].pc = "done"
        /\ api[c].op = "request"
        /\ IsAuthStatus(api[c].r1)
        /\ IsLoginSuccess(api[c].lr)
        /\ api[c].hdr2 # api[c].hdr1
        /\ IsAuthStatus(api[c].r2)

\* C4: a request whose first send is answered 401/403, whose login is
\* answered with a new token and whose retry with that token is accepted
\* returns the data of the retried response after exactly one login.
C4_StaleTokenRecovers ==
    \A c \in Callers :
        (/\ api[c].pc = "done"
         /\ api[c].op = "request"
         /\ IsAuthStatus(api[c].r1)
         /\ IsLoginSuccess(api[c].lr)
         /\ api[c].lr.data # EmptyToken
         /\ IsAccepted(api[c].r2)) =>
            /\ api[c].res = Result(NoError, api[c].r2.data)
            /\ api[c].logins = 1
            /\ api[c].sends = 2
            /\ api[c].hdr2 = api[c].lr.data

\* a stale-token request that has recovered and returned non-zero data
C4_Witness ==
    \E c \in Callers :
        /\ api[c].pc = "done"
        /\ api[c].op = "request"
        /\ IsAuthStatus(api[c].r1)
        /\ api[c].hdr2 # api[c].hdr1
        /\ IsAccepted(api[c].r2)
        /\ api[c].res.err = NoError
        /\ api[c].res.data = 1

\* C5: at most one re-login is in flight at any time.
C5_SingleFlightRelogin ==
    Cardinality({c \in Callers : api[c].pc = "relogin"}) <= 1

\* C10: a login() call whose response has an HTTP status other than 200, or
\* an application code other than 200000, fails with AuthenticationError.
C10_LoginRaisesAuthError ==
    \A c \in Callers :
        (/\ api[c].pc = "done"
         /\ api[c].op = "login"
         /\ api[c].lr.net = "ok"
         /\ (api[c].lr.status # 200 \/ api[c].lr.code # SUCCESS_CODE)) =>
            api[c].res.err = AuthenticationError

\* TRUE for a response the claims call a communication failure: a timeout, a
\* DNS/connection failure, or an HTTP error status other than 401/403.
IsCommFailure(r) ==
    \/ r.net \in {"timeout", "conn"}
    \/ r.net = "ok" /\ r.status >= 400 /\ r.status \notin {401, 403}

InFlight(c) == api[c].pc \in {"request", "relogin", "retry", "login"}

\* C11: login() is repeatable: a login() that has returned has returned the
\* token of its response and the account's user id is stored, and after any
\* sequence of logins the stored token is the one issued by the most recent
\* successful login.
C11_LoginRepeatable ==
    /\ token = issued
    /\ \A c \in Callers :
          (api[c].pc = "done" /\ api[c].op = "login" /\ api[c].res.err = NoError) =>
              /\ api[c].res.data = api[c].lr.data
              /\ user_id = AccountUser

\* C12: a step changes the stored token or user id only when it is a login
\* (direct or re-login) that succeeds, and then to the token and user id of
\* its response; a failed login and every other step leave both unchanged.
C12_OnlyLoginStores ==
    [][(token' # token \/ user_id' # user_id) =>
          \E c \in Callers :
              /\ api[c].pc \in {"login", "relogin"}
              /\ api'[c].pc # api[c].pc
              /\ IsLoginSuccess(api'[c].lr)
              /\ token' = api'[c].lr.data
              /\ user_id' = AccountUser]_vars

\* C13: a request that is over and whose first send or retry met a timeout,
\* a DNS/connection failure or an HTTP error status other than 401/403 has
\* raised CommunicationError.
C13_AttemptsRaiseCommunicationError ==
    \A c \in Callers :
        (api[c].pc = "done" /\ api[c].op = "request") =>
            /\ IsCommFailure(api[c].r1) => api[c].res.err = CommunicationError
            /\ IsCommFailure(api[c].r2) => api[c].res.err = CommunicationError

\* C14: whatever login() or a domain operation raises is one of
\* AuthenticationError, CommunicationError and ClientError.
C14_TaxonomyClosed ==
    \A c \in Callers :
        api[c].pc = "done" => api[c].res.err \in FairlandErrors \cup {NoError}

\* C15: every HTTP exchange a call is awaiting, the retry included, is inside
\* a timeout block.
C15_EveryAwaitUnderTimeout ==
    \A c \in Callers : InFlight(c) => TimeoutScope(api[c].pc) > 0

\* C16: a domain request returns data only when the response it returns from
\* carries the application code 200000.
C16_SuccessNeedsAppCode ==
    \A c \in Callers :
        (api[c].pc = "done" /\ api[c].op = "request" /\ api[c].res.err = NoError) =>
            IF api[c].r2 # NoResp THEN api[c].r2.code = SUCCESS_CODE
            ELSE api[c].r1.code = SUCCESS_CODE

\* C17: whenever no command is in progress, a falsy cached power state goes
\* with the cached hvac_mode OFF.
C17_OffWhenPowerFalsy ==
    cmd.pc = "idle" => (~_is_on => _attr_hvac_mode = HVACMode_OFF)

\* C18: right after __init__ and after async_update, when the list read has
\* "101" truthy and "106" = m with m in HVAC_MODE_MAP, the cached hvac_mode is
\* HVAC_MODE_MAP[m], whatever was cached before and whatever the list's order.
C18_ModeFollowsDataPoints ==
    (/\ read.by \in {"__init__", "async_update"}
     /\ HasDp(read.dps, "101")
     /\ HasDp(read.dps, "106")
     /\ DpValue(read.dps, "101")
     /\ DpValue(read.dps, "106") \in DOMAIN HVAC_MODE_MAP) =>
        _attr_hvac_mode = HVAC_MODE_MAP[DpValue(read.dps, "106")]

\* C19: async_set_hvac_mode(OFF) issues exactly one set_device_status call,
\* ("101", false), and no "106" call; when that call has returned, the cached
\* hvac_mode is OFF and the cached power state off.
C19_OffIsOnePowerOffCall ==
    (cmd.op = "async_set_hvac_mode" /\ cmd.hvac_mode = HVACMode_OFF) =>
        /\ sent = <<Call("101", FALSE)>>
        /\ (cmd.pc = "idle" /\ cmd.ok) =>
              ~_is_on /\ _attr_hvac_mode = HVACMode_OFF

\* async_set_hvac_mode(OFF) has succeeded on an entity that was on
C19_Witness ==
    /\ cmd.op = "async_set_hvac_mode"
    /\ cmd.hvac_mode = HVACMode_OFF
    /\ cmd.pc = "idle"
    /\ cmd.ok
    /\ cmd.wasOn

\* C20: async_set_hvac_mode(HEAT/COOL/AUTO) on an entity that is off issues
\* the power-on call ("101", true) first and only then the mode call: every
\* "106" call it has issued follows a ("101", true) call.
C20_PowerOnBeforeMode ==
    (/\ cmd.op = "async_set_hvac_mode"
     /\ cmd.hvac_mode # HVACMode_OFF
     /\ ~cmd.wasOn) =>
        \A i \in 1 .. Len(sent) :
            sent[i].dp = "106" =>
                \E j \in 1 .. (i - 1) : sent[j] = Call("101", TRUE)

C22_SuccessThenRefresh ==
    (cmd.pc = "idle" /\ cmd.ok) => (sent # <<>> /\ cmd.wrote /\ cmd.refresh)

\* C23: the value async_set_native_value sends is the multiple of the
\* entity's step nearest to the value it was given.
C23_RoundsToStepMultiple ==
    (cmd.op = "async_set_native_value" /\ sent # <<>>) =>
        /\ sent[1].value % cmd.step = 0
        /\ 2 * sent[1].value <= 2 * cmd.arg + cmd.step
        /\ 2 * cmd.arg <= 2 * sent[1].value + cmd.step

\* the scale a sensor is meant to use: the dpProperty's when it gives one,
\* the registry's otherwise
SpecifiedScale(dp, prop) ==
    IF prop.kind = "object" /\ prop.obj["scale"].t = "num" THEN prop.obj["scale"].n
    ELSE RegistryScale(dp)

\* C24: a sensor that was set up shows value / 10^s for the scale s its
\* dpProperty or, failing that, the registry specifies, and the value itself
\* when s is 0 or not given.
C24_ScaleDecoding ==
    (norm.kind = "sensor" /\ ~norm.out.raised) =>
        norm.shown.num * Pow10(SpecifiedScale(norm.dp, norm.prop)) =
            norm.value * norm.shown.den

\* the mode mapping was read whole: an object whose keys are all integers
ValidMapping(prop) ==
    /\ prop.kind = "object"
    /\ \A i \in 1 .. Len(prop.items) : IsIntegerText(prop.items[i].key)

\* encoding then decoding gives the label back, for every label of the mapping
RoundTrip(prop, maps) ==
    \A i \in 1 .. Len(prop.items) :
        LET label == prop.items[i].label
        IN /\ maps.reverse[label] # NoCode
           /\ maps.forward[maps.reverse[label]] = label

\* no two keys of the mapping are texts of the same integer
DistinctCodes(prop) ==
    \A i, j \in 1 .. Len(prop.items) :
        IntOf(prop.items[i].key) = IntOf(prop.items[j].key) => i = j

\* C25 as stated: for every mode mapping read whole, every label of it comes
\* back from the reverse and then the forward dictionary.
C25_RoundTrip ==
    (norm.kind = "preset" /\ ValidMapping(norm.prop)) => RoundTrip(norm.prop, norm.out)

\* C25, amended: the same for every mode mapping read whole whose keys are
\* texts of pairwise different integers.
C25_RoundTripDistinctCodes ==
    (norm.kind = "preset" /\ ValidMapping(norm.prop) /\ DistinctCodes(norm.prop)) =>
        RoundTrip(norm.prop, norm.out)

\* a mapping of two labels under two different codes
C25_Witness ==
    /\ norm.kind = "preset"
    /\ ValidMapping(norm.prop)
    /\ DistinctCodes(norm.prop)
    /\ Len(norm.prop.items) = 2
    /\ norm.prop.items[1].label # norm.prop.items[2].label

\* C26: when the dpProperty of "102" is missing, unparsable or an object with
\* a key that is no integer, the constructor does not fail and both
\* dictionaries are empty.
C26_InvalidMappingEmptyMaps ==
    (/\ norm.kind = "preset"
     /\ \/ norm.prop.kind \in {"absent", "unparsable"}
        \/ norm.prop.kind = "object" /\ ~ValidMapping(norm.prop)) =>
        /\ ~norm.out.raised
        /\ norm.out.forward = EmptyForward
        /\ norm.out.reverse = EmptyReverse

BoundKeys == {"min", "max", "step"}

\* C27: for a dpProperty object that gives numbers for any subset of min, max
\* and step, each bound of the number entity is the number given when its key
\* is there and the registry's when it is not.
C27_BoundsOverride ==
    (/\ norm.kind = "number"
     /\ norm.prop.kind = "object"
     /\ \A k \in BoundKeys : norm.prop.obj[k].t \in {"absent", "num"}) =>
        \A k \in BoundKeys :
            norm.out.config[k] = IF norm.prop.obj[k].t = "num" THEN norm.prop.obj[k].n
                                 ELSE NUMBER_TYPES[norm.dp][k]

\* min and step given, max left to the registry
C27_Witness ==
    /\ norm.kind = "number"
    /\ norm.prop.kind = "object"
    /\ norm.prop.obj["min"].t = "num"
    /\ norm.prop.obj["max"].t = "absent"
    /\ norm.prop.obj["step"].t = "num"
    /\ norm.out.config["min"] # NUMBER_TYPES[norm.dp]["min"]

\* a dpProperty that is unparsable, not an object, or an object with a value
\* that is no number
Malformed(prop) ==
    \/ prop.kind \in {"unparsable", "scalar", "list"}
    \/ prop.kind = "object" /\ \E k \in PropKeys : prop.obj[k].t \in {"str", "null"}

\* C28: for a malformed dpProperty the setup of the number and of the sensor
\* ends without an exception and the entity has the registry's min, max,
\* step and scale.
C28_MalformedUsesDefaults ==
    /\ (norm.kind = "number" /\ Malformed(norm.prop)) =>
           /\ ~norm.out.raised
           /\ norm.out.config = NUMBER_TYPES[norm.dp]
    /\ (norm.kind = "sensor" /\ Malformed(norm.prop)) =>
           /\ ~norm.out.raised
           /\ norm.out.scale = RegistryScale(norm.dp)

\* C29: when a cycle has ended, an entity whose device is not in
\* coordinator.data is unavailable.
C29_MissingDeviceUnavailable ==
    \A d \in setup.entities : (CycleOver /\ d \notin Ids(data)) => ~available(d)

\* C30: no refresh is started and no platform is set up unless login() has
\* succeeded, a failed login leaves the setup where it was, and the platforms
\* are set up only after a refresh has succeeded.
C30_SetupOrder ==
    /\ setup.login # "ok" => (cpc = "setup" /\ cycle.outcome = "none" /\ ~setup.platforms)
    /\ cycle.outcome # "none" => setup.login = "ok"
    /\ setup.platforms => (setup.login = "ok" /\ (cycle.everOk \/ cycle.outcome = "ok"))

\* login() has raised: the setup has ended before the first refresh
C30_Witness ==
    /\ setup.login = "failed"
    /\ cpc = "setup"
    /\ cycle.outcome = "none"

\* C35: a domain request called while the stored token is empty ends at once
\* with an error: no request is sent and login() is not called.
C35_NoRequestBeforeLogin ==
    \A c \in Callers :
        (api[c].op = "request" /\ api[c].hdr1 = EmptyToken) =>
            /\ api[c].pc = "done"
            /\ api[c].sends = 0
            /\ api[c].logins = 0
            /\ api[c].res.err # NoError

\* a domain request that was called with no token stored
C35_Witness ==
    \E c \in Callers :
        /\ api[c].op = "request"
        /\ api[c].hdr1 = EmptyToken
        /\ api[c].pc = "done"
        /\ token = EmptyToken

\* C31: the coordinator is built with the interval the config entry stores
\* as scan_interval, and with 30 seconds when the entry stores none.
C31_IntervalFromEntry ==
    norm.kind = "coordinator" =>
        /\ norm.out.raised = NoError
        /\ norm.out.seconds = IF norm.entry.hasScan THEN norm.entry.scan_interval
                              ELSE DEFAULT_SCAN_INTERVAL

\* C38: the login payload carries the country code and the phone code the
\* client was constructed with.
C38_PayloadCarriesCodes ==
    norm.kind = "login" =>
        /\ norm.payload.countryCode = norm.country_code
        /\ norm.payload.phoneCode = norm.phone_code

\* C33: whatever has been set up before, the registries hold their
\* compiled-in entries, and an entity set up from a data point without a
\* dpProperty has the compiled-in bounds and scale.
C33_RegistriesUnchanged ==
    /\ norm.registry = Registries
    /\ (norm.kind = "number" /\ norm.prop.kind = "absent") =>
           norm.out.config = NUMBER_TYPES[norm.dp]
    /\ (norm.kind = "sensor" /\ norm.prop.kind = "absent") =>
           norm.out.scale = RegistryScale(norm.dp)

\* a number entity has been set up with all three bounds overridden
C33_Witness ==
    /\ norm.kind = "number"
    /\ norm.prop.kind = "object"
    /\ \A k \in BoundKeys : norm.out.config[k] # NUMBER_TYPES[norm.dp][k]

\* The hvac_action a status report determines by itself: off when the power
\* switch is off, heating or cooling when it is on, the operating status is
\* 1 and the operating mode is heat or cool, idle otherwise.
ReportedAction(list) ==
    LET mode == HvacModeOf(DpValue(list, "106"))
    IN IF ~DpValue(list, "101") THEN HVACAction_OFF
       ELSE IF DpValue(list, "113") = 1 /\ mode = HVACMode_HEAT THEN HVACAction_HEATING
       ELSE IF DpValue(list, "113") = 1 /\ mode = HVACMode_COOL THEN HVACAction_COOLING
       ELSE HVACAction_IDLE

\* C32: after an update from a report that holds the power switch, the
\* operating mode and the operating status, in whatever order, hvac_action is
\* the action that report determines, whatever was cached before.
C32_ActionFromReport ==
    (/\ read.by = "async_update"
     /\ \A id \in {"101", "106", "113"} : HasDp(read.dps, id)) =>
        _attr_hvac_action = ReportedAction(read.dps)

\* C34: the call async_set_temperature makes writes the data point from
\* which async_update reads the target temperature.
C34_SameTemperatureDp ==
    (cmd.op = "async_set_temperature" /\ sent # <<>>) =>
        sent[1].dp = TargetTemperatureDp

\* the cached preset is unset or a label the entity offers
PresetOffered ==
    _attr_preset_mode = NoLabel \/ _attr_preset_mode \in PresetModes(PresetMaps)

\* async_set_preset_mode with a label the reverse dictionary does not have
\* has sent no call and written nothing
UnknownLabelIgnored ==
    (cmd.op = "async_set_preset_mode" /\ PresetMaps.reverse[cmd.label] = NoCode) =>
        /\ sent = <<>>
        /\ cmd.pc = "idle"
        /\ ~cmd.wrote

\* C37 as stated: the cached preset is always unset or one of preset_modes,
\* and a label outside the reverse dictionary sends nothing and changes
\* nothing.
C37_PresetInvariant ==
    /\ PresetOffered
    /\ UnknownLabelIgnored

\* C37, amended: the same for an entity whose mode mapping has keys that are
\* texts of pairwise different integers (or that has no mapping).
C37_PresetInvariantDistinctCodes ==
    /\ DistinctCodes(norm.prop) => PresetOffered
    /\ UnknownLabelIgnored

\* a preset is cached after an update that reported the running mode
C37_Witness ==
    /\ DistinctCodes(norm.prop)
    /\ _attr_preset_mode # NoLabel
    /\ read.by = "async_update"
    /\ HasDp(read.dps, "102")

\* C36: when the update handler of a switch or a number has read a snapshot
\* that holds the entity's device and data point, the cached value is the
\* snapshot's, whatever a command wrote before.
C36_SnapshotWins ==
    read.by = "_handle_coordinator_update" =>
        /\ (entity = "switch" /\ HasDp(read.dps, "101")) =>
               switch_is_on = FirstDpValue(read.dps, "101")
        /\ (entity = "number" /\ HasDp(read.dps, norm.dp)) =>
               _attr_native_value = FirstDpValue(read.dps, norm.dp)

\* a number was set by a command whose call returned, and the snapshot
\* published next holds another value for its data point
C36_Witness ==
    /\ entity = "number"
    /\ cmd.op = "async_set_native_value"
    /\ cmd.pc = "idle"
    /\ cmd.wrote
    /\ read.by = "_handle_coordinator_update"
    /\ HasDp(read.dps, norm.dp)
    /\ FirstDpValue(read.dps, norm.dp) # sent[1].value

====
